---- MODULE Spec2Model ----
(***************************************************************************)
(* fatrace-rs (src/main.rs): a fanotify file-access tracer.                *)
(*                                                                         *)
(* The main thread initialises fanotify, enumerates /proc/mounts, marks    *)
(* every accepted mount, creates a bounded crossbeam channel, spawns the   *)
(* reader thread and then consumes the channel in process_events.  The     *)
(* reader thread loops on read_events and forwards every event of a batch  *)
(* with a blocking send.                                                   *)
(*                                                                         *)
(* Strings that the program takes apart or puts together are sequences of  *)
(* tokens (words, whitespace, punctuation); the operating system is the    *)
(* environment: /proc/mounts, /proc/<pid>/comm, /proc/self/fd/<n> and the  *)
(* kernel's event queue.                                                   *)
(***************************************************************************)
EXTENDS Integers, Sequences, FiniteSets, TLC

VARIABLES
    pc_main,      \* where the main thread is
    exit_code,    \* "running", or the status the process exited with
    fan,          \* the Fanotify handle: "none", "open"
    fan_owner,    \* the thread that owns the handle: "none", "main", "reader"
    proc_mounts,  \* environment: what reading /proc/mounts returns
    mounts,       \* main's Vec<(String, String)>
    mark_i,       \* the for loop of main: index of the next mount to mark
    mark_calls,   \* the mount paths mark_mount was called with, in call order
    marks,        \* the marks the kernel holds, in the order they were placed
    stderr,       \* the diagnostics written to standard error
    stdout,       \* the lines written to standard output
    tx,           \* the Sender: "none", "alive", "dropped"
    rx,           \* the Receiver: "none", "alive", "dropped"
    chan,         \* the events queued in the channel, oldest first
    pc_reader,    \* where the reader thread is: "none", "read_events", "send", "sleep"
    events,       \* the reader's batch: the events not yet sent, the head is being sent
    ev,           \* the event process_events holds, or NoEvent
    env,          \* environment: what the kernel will still deliver to read_events,
                  \* and the lines the reader of standard output will still take
    fd_table,     \* the process's open event descriptors: fd -> file it refers to
    read_log,     \* concatenation, in read order, of the batches read_events returned
    recv_log,     \* the events process_events has received, in order
    close_log,    \* the event descriptors closed, in order: [id, fd]
    reads,        \* what each read_events call returned, in call order: the size
                  \* of the batch, 0 for an Err
    lookups,      \* what each loop body looked up and computed, in order:
                  \* [id, comm_read, comm, link, name, code]
    discarded     \* the events dropped before process_events received them, in
                  \* order: [id, by], by the reader or with the channel

vars == <<pc_main, exit_code, fan, fan_owner, proc_mounts, mounts, mark_i, mark_calls,
          marks, stderr, stdout, tx, rx, chan, pc_reader, events, ev, env,
          fd_table, read_log, recv_log, close_log, reads, lookups, discarded>>

\* ------------------------------------------------------------------ bounds

\* Most lines in a /proc/mounts table.
MaxLines == 2
\* Most events the kernel delivers in one run, and in one read_events batch.
MaxEvents == 3
MaxBatch == 2
\* Most read_events failures in one run.
MaxReadErrors == 2

\* Events in one batch of a run under load, and the number of such batches.
BurstSize == 170
BurstReads == 4
\* Lines standard output takes in a run under load before its reader stalls.
StalledAfter == 1

\* ------------------------------------------------------- program constants

\* bounded::<FanotifyEvent>(512)
CAPACITY == 512
\* "{:<3}": minimum width of the code field
CODE_WIDTH == 3
\* nix: FAN_NOFD, the fd of an event that carries no descriptor
FAN_NOFD == -1
\* exit status of a main that returns Err
EXIT_FAILURE == 1
EXIT_SUCCESS == 0
\* exit status of a process whose main thread panicked
PANIC_STATUS == 101

ACCEPTED_FS == {"ext4", "xfs", "btrfs", "vfat"}


\* ---------------------------------------------------------------- strings

WHITESPACE == {" ", "\t", "\n", "\r"}

\* A line ending is "\n" or "\r\n": the "\r" right before the "\n" is not
\* part of the line.
strip_cr(l) ==
    IF l # <<>> /\ l[Len(l)] = "\r" THEN SubSeq(l, 1, Len(l) - 1) ELSE l

\* str::lines(): the pieces between line endings; a last piece that is empty
\* is not a line.
RECURSIVE LinesFrom(_, _)
LinesFrom(s, cur) ==
    IF s = <<>> THEN (IF cur = <<>> THEN <<>> ELSE <<cur>>)
    ELSE IF Head(s) = "\n" THEN <<strip_cr(cur)>> \o LinesFrom(Tail(s), <<>>)
    ELSE LinesFrom(Tail(s), Append(cur, Head(s)))

lines(content) == LinesFrom(content, <<>>)

\* A split at spaces only.
split_spaces(line) == SelectSeq(line, LAMBDA t : t # " ")

\* str::split_whitespace(): the non-whitespace tokens, in order.
split_whitespace(line) == SelectSeq(line, LAMBDA t : t \notin WHITESPACE)

\* str::trim(): without the leading and the trailing whitespace.
RECURSIVE trim_start(_)
trim_start(s) ==
    IF s # <<>> /\ Head(s) \in WHITESPACE THEN trim_start(Tail(s)) ELSE s

RECURSIVE trim_end(_)
trim_end(s) ==
    IF s # <<>> /\ s[Len(s)] \in WHITESPACE
    THEN trim_end(SubSeq(s, 1, Len(s) - 1)) ELSE s

trim(s) == trim_end(trim_start(s))

\* ------------------------------------------------------- /proc/mounts

\* Result of fs::read_to_string("/proc/mounts").
ReadErr == [ok |-> FALSE, content |-> <<>>]
ReadOk(content) == [ok |-> TRUE, content |-> content]

\* An enumerator that takes a mount of any filesystem type.
accepts_any_type(fields) == Len(fields) >= 3

\* if fields.len() >= 3 { ... if ACCEPTED_FS.contains(&fstype) { push } }
accepts(fields) == Len(fields) >= 3 /\ fields[3] \in ACCEPTED_FS

\* fn monitored_mounts(), given what reading /proc/mounts returned.
RECURSIVE mounts_of_lines(_)
mounts_of_lines(ls) ==
    IF ls = <<>> THEN <<>>
    ELSE LET fields == split_whitespace(Head(ls))
         IN  (IF accepts(fields)
              THEN << <<fields[1], fields[2]>> >>
              ELSE <<>>) \o mounts_of_lines(Tail(ls))

monitored_mounts(read) ==
    IF read.ok THEN mounts_of_lines(lines(read.content)) ELSE <<>>

\* ------------------------------------------------------- identity resolvers

UNKNOWN_NAME == <<"unknown">>
UNKNOWN_PATH == "[unknown]"

\* A pid_to_name that reads the comm file of whatever pid it is given.
comm_lookups_always(pid) == <<pid>>

\* The pids whose /proc/<pid>/comm fn pid_to_name(pid) reads: the return for
\* pid <= 0 comes before the read.
comm_lookups(pid) == IF pid <= 0 THEN <<>> ELSE <<pid>>

\* fn pid_to_name(pid), given what reading /proc/<pid>/comm returns.
pid_to_name(pid, read) ==
    IF pid <= 0 THEN UNKNOWN_NAME
    ELSE IF read.ok THEN trim(read.content)
    ELSE UNKNOWN_NAME

\* Result of fs::read_link("/proc/self/fd/<fd>").
LinkErr == [ok |-> FALSE, target |-> ""]
LinkOk(target) == [ok |-> TRUE, target |-> target]

\* fn fd_to_path(fd): the link of an open descriptor may be read or the read
\* may fail; a descriptor that is not open has no link.
fd_to_path(fd, table) ==
    {LinkErr} \cup (IF fd \in DOMAIN table THEN {LinkOk(table[fd])} ELSE {})

\* A lookup failure that leaves the path empty.
path_or_empty(link) == IF link.ok THEN link.target ELSE ""

\* .map(|p| p.display().to_string()).unwrap_or_else(|_| "[unknown]".into())
path_or_unknown(link) == IF link.ok THEN link.target ELSE UNKNOWN_PATH

\* ------------------------------------------------------------ event codec

contains(mask, flag) == flag \in mask

push_if(mask, flag, c) == IF contains(mask, flag) THEN <<c>> ELSE <<>>

\* A mask_to_code whose characters for the two close flags are swapped.
CHECKS_close_swapped ==
    << <<"FAN_OPEN", "O">>,
       <<"FAN_ACCESS", "R">>,
       <<"FAN_MODIFY", "W">>,
       <<"FAN_CLOSE_WRITE", "c">>,
       <<"FAN_CLOSE_NOWRITE", "C">>,
       <<"FAN_CREATE", "+">>,
       <<"FAN_DELETE", "D">>,
       <<"FAN_MOVED_FROM", "<">>,
       <<"FAN_MOVED_TO", ">">> >>

\* The if statements of mask_to_code, in the order of the source: the flag
\* each one tests and the character it pushes.
CHECKS ==
    << <<"FAN_OPEN", "O">>,
       <<"FAN_ACCESS", "R">>,
       <<"FAN_MODIFY", "W">>,
       <<"FAN_CLOSE_WRITE", "C">>,
       <<"FAN_CLOSE_NOWRITE", "c">>,
       <<"FAN_CREATE", "+">>,
       <<"FAN_DELETE", "D">>,
       <<"FAN_MOVED_FROM", "<">>,
       <<"FAN_MOVED_TO", ">">> >>

\* An else-if chain: the first if statement whose flag is set is the last to run.
RECURSIVE run_checks_else_if(_, _)
run_checks_else_if(checks, mask) ==
    IF checks = <<>> THEN <<>>
    ELSE IF contains(mask, Head(checks)[1]) THEN <<Head(checks)[2]>>
    ELSE run_checks_else_if(Tail(checks), mask)

\* The string s after the given if statements have run one after the other.
RECURSIVE run_checks(_, _)
run_checks(checks, mask) ==
    IF checks = <<>> THEN <<>>
    ELSE push_if(mask, Head(checks)[1], Head(checks)[2]) \o run_checks(Tail(checks), mask)

\* if s.is_empty() { s.push('?'); }
or_question(s) == IF s = <<>> THEN <<"?">> ELSE s

\* fn mask_to_code(mask)
mask_to_code(mask) == or_question(run_checks(CHECKS, mask))

\* A field cut to the width when the string is longer.
RECURSIVE pad_or_cut(_, _)
pad_or_cut(s, width) ==
    IF Len(s) > width THEN SubSeq(s, 1, width)
    ELSE IF Len(s) = width THEN s
    ELSE pad_or_cut(Append(s, " "), width)

\* "{:<3}": left-aligned, filled with spaces up to the width, never cut.
RECURSIVE pad_left_aligned(_, _)
pad_left_aligned(s, width) ==
    IF Len(s) >= width THEN s ELSE pad_left_aligned(Append(s, " "), width)

\* println!("{}({}): {:<3} {}", name, pid, code, path)
format_line(name, pid, code, path) ==
    name \o <<"(", ToString(pid), ")", ":", " ">>
         \o pad_left_aligned(code, CODE_WIDTH) \o <<" ", path>>

\* ------------------------------------------------------------ environment

\* Lines a /proc/mounts table is made of: an accepted type with six fields, an
\* accepted type with exactly three fields and a tab, a type that is not
\* accepted, and a line of two fields whose first field names an accepted type.
Ext4Line == <<"/dev/sda1", " ", "/", " ", "ext4", " ", "rw", " ", "0", " ", "0">>
VfatLine == <<"/dev/sdb1", "\t", "/boot", " ", "vfat">>
ProcLine == <<"proc", " ", "/proc", " ", "proc", " ", "rw">>
ShortLine == <<"ext4", " ", "/mnt">>

SampleLines == {Ext4Line, VfatLine, ProcLine, ShortLine}

RECURSIVE join_lines(_)
join_lines(ls) ==
    IF ls = <<>> THEN <<>> ELSE Head(ls) \o <<"\n">> \o join_lines(Tail(ls))

\* What fs::read_to_string("/proc/mounts") may return.
MountTables ==
    {ReadErr} \cup
    { ReadOk(join_lines(ls)) : ls \in UNION { [1..n -> SampleLines] : n \in 0..MaxLines } }

\* What the kernel puts in an event: the pid, the mask, and the file the
\* event's descriptor refers to (has_fd FALSE: the event carries FAN_NOFD, as a
\* queue overflow event does).
FileEvent ==
    [pid |-> 1234, mask |-> {"FAN_OPEN", "FAN_ACCESS"}, has_fd |-> TRUE,
     file |-> "/home/u/file.txt"]
OverflowEvent ==
    [pid |-> 0, mask |-> {"FAN_Q_OVERFLOW"}, has_fd |-> FALSE, file |-> ""]

EventKinds == {FileEvent, OverflowEvent}

\* What fs::read_to_string("/proc/<pid>/comm") may return: the process may be
\* gone, and only pid 1234 ever existed.
ProcComm(pid) ==
    {ReadErr} \cup (IF pid = 1234 THEN {ReadOk(<<"cat", "\n">>)} ELSE {})

\* The environment of a run: how many events and read failures the kernel will
\* still deliver, the kinds of event and the batch sizes it delivers, and how
\* many lines standard output takes before a write to it blocks for good (as
\* many as there are events: it never blocks). A run of many events whose
\* reads all succeed, and a run of one batch with many failed reads.
Environments ==
    { [events |-> MaxEvents, kinds |-> "mixed", sizes |-> 1..MaxBatch,
       errors |-> 0, room |-> MaxEvents],
      [events |-> MaxBatch, kinds |-> "mixed", sizes |-> 1..MaxBatch,
       errors |-> MaxReadErrors, room |-> MaxBatch] }

\* A quiet run: one event, one failed read.
QuietEnvironments ==
    { [events |-> 1, kinds |-> "mixed", sizes |-> {1}, errors |-> 1, room |-> 1] }

\* A run under load: the kernel delivers full batches of file events and the
\* reader of standard output stalls after a few lines, so that the channel
\* fills while the reader thread still holds events.
BurstEnvironments ==
    { [events |-> BurstReads * BurstSize, kinds |-> "files",
       sizes |-> {BurstSize}, errors |-> 0, room |-> StalledAfter] }

\* Runs in which the reader of standard output goes away at once, or after it
\* has taken a line.
ClosedPipeEnvironments ==
    { [events |-> MaxEvents, kinds |-> "mixed", sizes |-> 1..MaxBatch, errors |-> 1,
       room |-> r] : r \in {0, 1} }

\* A /proc/mounts with one mount to monitor.
TypicalTables == { ReadOk(join_lines(<<Ext4Line>>)) }

\* The flags mask_to_code tests, and flags an event mask may carry that it
\* does not test.
TestedFlags == {CHECKS[i][1] : i \in 1..Len(CHECKS)}
OtherFlags == {"FAN_Q_OVERFLOW", "FAN_ONDIR"}

\* Events of every mask; and events of every kind of pid (none, negative, of
\* a live process, of a process that is gone), with and without a descriptor.
AnyMaskEvents ==
    { [pid |-> 1234, mask |-> m, has_fd |-> TRUE, file |-> "/home/u/file.txt"] :
        m \in SUBSET (TestedFlags \cup OtherFlags) }
AnyPidEvents ==
    { [pid |-> p, mask |-> {"FAN_OPEN", "FAN_ACCESS"}, has_fd |-> b,
       file |-> IF b THEN "/home/u/file.txt" ELSE ""] :
        p \in {-1, 0, 1234, 4321}, b \in BOOLEAN }

\* The events the kernel delivers in a run, by the name the run gives them.
kinds_of(name) ==
    CASE name = "mixed" -> EventKinds
      [] name = "files" -> {FileEvent}
      [] name = "any"   -> AnyMaskEvents \cup AnyPidEvents

\* A run of one event, which may be any event.
InputEnvironments ==
    { [events |-> 1, kinds |-> "any", sizes |-> {1},
       errors |-> 0, room |-> 1] }

\* A run of two events of the usual kinds, in one batch or two.
PairEnvironments ==
    { [events |-> 2, kinds |-> "mixed", sizes |-> {1, 2}, errors |-> 0, room |-> 2] }

\* Further lines of /proc/mounts: the other accepted types, leading and
\* repeated whitespace, a "\r\n" line ending, an accepted type in the fourth
\* field only.
XfsLine == <<" ", "/dev/sdc1", " ", " ", "/data", "\t", "xfs", " ", "rw">>
BtrfsLine == <<"/dev/sdd1", " ", "/srv", " ", "btrfs", "\r">>
TmpfsLine == <<"tmpfs", " ", "/tmp", " ", "tmpfs", " ", "ext4">>

\* Further /proc/mounts tables: the one line of the typical table without a
\* line ending, and a table of the further lines with empty lines in between.
ScenarioTables ==
    { ReadOk(Ext4Line),
      ReadOk(join_lines(<<XfsLine, <<>>, TmpfsLine, BtrfsLine, <<" ">>, VfatLine>>)) }

NoEvent == [id |-> 0, pid |-> 0, mask |-> {}, fd |-> FAN_NOFD]

EmptyTable == [f \in {} |-> ""]

\* The descriptor the kernel opens for the event with the given id: 0..2 are
\* the standard streams, 3 is the fanotify descriptor, and a number stands for
\* one open file description, so no number is given out twice.
event_fd(id) == 3 + id

\* The kernel builds the batch of a read: it opens a descriptor for every
\* event that carries one. Gives the FanotifyEvents and the descriptor table.
kernel_deliver(kinds, first_id, table) ==
    LET n      == Len(kinds)
        id(i)  == first_id + i - 1
        opened == {i \in 1..n : kinds[i].has_fd}
    IN  [batch |-> [i \in 1..n |->
                       [id   |-> id(i),
                        pid  |-> kinds[i].pid,
                        mask |-> kinds[i].mask,
                        fd   |-> IF kinds[i].has_fd THEN event_fd(id(i)) ELSE FAN_NOFD]],
         table |-> [f \in DOMAIN table \cup {event_fd(id(i)) : i \in opened} |->
                        IF f \in DOMAIN table THEN table[f]
                        ELSE kinds[f - 3 - first_id + 1].file]]

\* An event that keeps its descriptor open when it is dropped.
drop_event_leak(e, table) == table

\* impl Drop for FanotifyEvent: closes the descriptor the event carries.
drop_event(e, table) ==
    IF e.fd = FAN_NOFD THEN table
    ELSE [f \in DOMAIN table \ {e.fd} |-> table[f]]

closed_by_drop(e) ==
    IF e.fd = FAN_NOFD THEN <<>> ELSE <<[id |-> e.id, fd |-> e.fd]>>

RECURSIVE drop_events(_, _)
drop_events(es, table) ==
    IF es = <<>> THEN table ELSE drop_events(Tail(es), drop_event(Head(es), table))

RECURSIVE closed_by_drops(_)
closed_by_drops(es) ==
    IF es = <<>> THEN <<>> ELSE closed_by_drop(Head(es)) \o closed_by_drops(Tail(es))

\* The record of events dropped unreceived.
discarded_by(es, by) == [k \in 1..Len(es) |-> [id |-> es[k].id, by |-> by]]

Diag(msg, arg) == [msg |-> msg, arg |-> arg]

\* ------------------------------------------------------------------ state

Running == exit_code = {}

\* The state when main starts, for the /proc/mounts tables and the kernels given.
Start(tables, envs) ==
    /\ pc_main = "setup_fanotify"
    /\ exit_code = {}
    /\ fan = "none"
    /\ fan_owner = "none"
    /\ proc_mounts \in tables
    /\ mounts = <<>>
    /\ mark_i = 1
    /\ mark_calls = <<>>
    /\ marks = <<>>
    /\ stderr = <<>>
    /\ stdout = <<>>
    /\ tx = "none"
    /\ rx = "none"
    /\ chan = <<>>
    /\ pc_reader = "none"
    /\ events = <<>>
    /\ ev = NoEvent
    /\ env \in envs
    /\ fd_table = EmptyTable
    /\ read_log = <<>>
    /\ recv_log = <<>>
    /\ close_log = <<>>
    /\ reads = <<>>
    /\ lookups = <<>>
    /\ discarded = <<>>

\* Every /proc/mounts table in a quiet run, and a typical one in a full run.
Init ==
    \/ Start(MountTables, QuietEnvironments)
    \/ Start(TypicalTables, Environments)

startup_vars == <<fan, fan_owner, proc_mounts, mounts, mark_i, mark_calls, marks>>
channel_vars == <<tx, rx, chan>>
reader_vars  == <<pc_reader, events, read_log, reads>>
consumer_vars == <<ev, stdout, recv_log, lookups>>
fd_vars == <<fd_table, close_log, discarded>>

\* ------------------------------------------------------------------- main

\* let fan = setup_fanotify()?;  -- Fanotify::init succeeds
main_setup_fanotify_ok ==
    /\ pc_main = "setup_fanotify"
    /\ fan' = "open"
    /\ fan_owner' = "main"
    /\ pc_main' = "monitored_mounts"
    /\ UNCHANGED <<exit_code, proc_mounts, mounts, mark_i, mark_calls, marks, stderr>>
    /\ UNCHANGED <<channel_vars, reader_vars, env, consumer_vars, fd_vars>>

\* let fan = setup_fanotify()?;  -- Fanotify::init fails: main returns the
\* error, the runtime reports it and the process exits with a failure status.
main_setup_fanotify_err ==
    /\ pc_main = "setup_fanotify"
    /\ stderr' = Append(stderr, Diag("Error", "fanotify_init"))
    /\ exit_code' = {EXIT_FAILURE}
    /\ pc_main' = "exited"
    /\ UNCHANGED <<startup_vars, channel_vars, reader_vars, env, consumer_vars, fd_vars>>

\* A main that reports the lack of mounts as a failure.
no_mounts_status_failure == EXIT_FAILURE

\* return Ok(()) of the mounts.is_empty() branch: the status the process exits with.
no_mounts_status == EXIT_SUCCESS

\* let mounts = monitored_mounts(); if mounts.is_empty() { eprintln; return Ok(()) }
main_monitored_mounts ==
    /\ pc_main = "monitored_mounts"
    /\ mounts' = monitored_mounts(proc_mounts)
    /\ IF mounts' = <<>>
       THEN /\ stderr' = Append(stderr, Diag("No suitable mounts found to monitor.", ""))
            /\ exit_code' = {no_mounts_status}
            /\ fan' = "closed"
            /\ fan_owner' = "none"
            /\ pc_main' = "exited"
       ELSE /\ pc_main' = "mark_mount"
            /\ UNCHANGED <<stderr, exit_code, fan, fan_owner>>
    /\ mark_i' = 1
    /\ UNCHANGED <<proc_mounts, mark_calls, marks>>
    /\ UNCHANGED <<channel_vars, reader_vars, env, consumer_vars, fd_vars>>

\* How one mark_mount call may end: Ok, or Err from open(), or Err from fan.mark().
MarkOutcomes == {"ok", "open_err", "mark_err"}

\* A mark_mount with the mask of ten events that the source has in a comment.
mark_mount_all_events(ms, path, outcome) ==
    IF outcome = "ok"
    THEN Append(ms, [path  |-> path,
                     flags |-> {"FAN_MARK_ADD", "FAN_MARK_MOUNT"},
                     mask  |-> {"FAN_OPEN", "FAN_ACCESS", "FAN_MODIFY", "FAN_CLOSE_WRITE",
                                "FAN_CLOSE_NOWRITE", "FAN_EVENT_ON_CHILD", "FAN_CREATE",
                                "FAN_DELETE", "FAN_MOVED_FROM", "FAN_MOVED_TO"}])
    ELSE ms

\* fn mark_mount(fan, mount_path): the marks the kernel holds afterwards.
mark_mount(ms, path, outcome) ==
    IF outcome = "ok"
    THEN Append(ms, [path  |-> path,
                     flags |-> {"FAN_MARK_ADD", "FAN_MARK_MOUNT"},
                     mask  |-> {"FAN_OPEN", "FAN_ACCESS", "FAN_EVENT_ON_CHILD"}])
    ELSE ms

\* A for loop that a failed mark_mount ends.
after_mark_stop_on_error(outcome, i, n) ==
    IF outcome # "ok" \/ i > n THEN "bounded" ELSE "mark_mount"

\* A main that goes on to the channel after its first mark_mount.
after_mark_first_only(outcome, i, n) == "bounded"

\* The for loop of main after a mark_mount call that ended with outcome: on to
\* mount i of n, or past the loop; the outcome makes no difference.
after_mark(outcome, i, n) == IF i > n THEN "bounded" ELSE "mark_mount"

\* One iteration of: for (_dev, mount) in &mounts { if let Err(e) = mark_mount(..) { eprintln } }
main_mark_mount ==
    /\ pc_main = "mark_mount"
    /\ mark_i <= Len(mounts)
    /\ \E outcome \in MarkOutcomes :
          LET mount == mounts[mark_i][2]
          IN  /\ mark_calls' = Append(mark_calls, mount)
              /\ marks' = mark_mount(marks, mount, outcome)
              /\ stderr' = IF outcome = "ok" THEN stderr
                           ELSE Append(stderr, Diag("Failed to mark", mount))
              /\ pc_main' = after_mark(outcome, mark_i + 1, Len(mounts))
    /\ mark_i' = mark_i + 1
    /\ UNCHANGED <<exit_code, fan, fan_owner, proc_mounts, mounts>>
    /\ UNCHANGED <<channel_vars, reader_vars, env, consumer_vars, fd_vars>>

\* let (tx, rx) = bounded::<FanotifyEvent>(512);
main_bounded ==
    /\ pc_main = "bounded"
    /\ tx' = "alive"
    /\ rx' = "alive"
    /\ chan' = <<>>
    /\ pc_main' = "spawn_reader"
    /\ UNCHANGED <<exit_code, stderr, startup_vars, reader_vars, env, consumer_vars, fd_vars>>

\* spawn_reader(fan, tx): the handle and the Sender move into the new thread;
\* main goes on to process_events(rx).
main_spawn_reader ==
    /\ pc_main = "spawn_reader"
    /\ pc_reader' = "read_events"
    /\ fan_owner' = "reader"
    /\ pc_main' = "rx_next"
    /\ UNCHANGED <<exit_code, stderr, fan, proc_mounts, mounts, mark_i, mark_calls, marks>>
    /\ UNCHANGED <<channel_vars, events, env, read_log, reads, consumer_vars, fd_vars>>

\* ----------------------------------------------------------- reader thread

\* A channel that hands the newest event out first.
enqueue_at_front(q, e) == <<e>> \o q

\* Sender::send on the bounded channel: the event goes to the back of the queue.
enqueue(q, e) == Append(q, e)

\* A channel that lets one event more in.
is_full_one_late(q) == Len(q) > CAPACITY

\* bounded(512): a send blocks while the channel holds as many events.
is_full(q) == Len(q) >= CAPACITY

\* match fan.read_events() { Ok(events) => ... }: the kernel hands over a batch
\* of one or more events; it has events only for marked mounts.
reader_read_events_ok ==
    /\ Running
    /\ pc_reader = "read_events"
    /\ Len(marks) > 0
    /\ \E n \in env.sizes :
          /\ n <= env.events
          /\ \E kinds \in [1..n -> kinds_of(env.kinds)] :
                LET d == kernel_deliver(kinds, Len(read_log) + 1, fd_table)
                IN  /\ events' = d.batch
                    /\ fd_table' = d.table
                    /\ read_log' = read_log \o d.batch
          /\ reads' = Append(reads, n)
          /\ env' = [env EXCEPT !.events = @ - n]
    /\ pc_reader' = "send"
    /\ UNCHANGED <<pc_main, exit_code, stderr, startup_vars, channel_vars, consumer_vars,
                   close_log, discarded>>

\* Where the Err arm of the match goes after the eprintln!: to the sleep.
after_read_err == "sleep"

\* A reader that gives up after a failed read.
after_sleep_give_up == "done"

\* Where the loop goes after the sleep: to the next read_events.
after_sleep == "read_events"

\* Err(e) => { eprintln!("fanotify read error: {e}"); ... }
reader_read_events_err ==
    /\ Running
    /\ pc_reader = "read_events"
    /\ env.errors > 0
    /\ env' = [env EXCEPT !.errors = @ - 1]
    /\ stderr' = Append(stderr, Diag("fanotify read error", "errno"))
    /\ reads' = Append(reads, 0)
    /\ pc_reader' = after_read_err
    /\ UNCHANGED <<pc_main, exit_code, startup_vars, channel_vars, events, read_log,
                   consumer_vars, fd_vars>>

\* thread::sleep(Duration::from_millis(250)); then the loop reads again.
reader_sleep ==
    /\ Running
    /\ pc_reader = "sleep"
    /\ pc_reader' = after_sleep
    /\ UNCHANGED <<pc_main, exit_code, stderr, startup_vars, channel_vars, events, env,
                   read_log, reads, consumer_vars, fd_vars>>

\* A reader that returns from its thread when a send fails.
after_send_err_return == "done"

\* Where the reader goes after a send that failed: the break leaves the for
\* loop, and the loop goes around to the next read_events.
after_send_err == "read_events"

\* A reader that reads again after every send.
after_send_read_eagerly(rest) == "read_events"

\* Where the reader goes after a send, with the events of the batch that are
\* left: to the send of the next one, or, the for loop over, around the loop
\* to the next read_events.
after_send(rest) == IF rest = <<>> THEN "read_events" ELSE "send"

\* for ev in events { if tx.send(ev).is_err() { break; } }: one send. It
\* blocks while the channel is full; with the Receiver gone it fails, the loop
\* breaks and the events not sent are dropped.
reader_send ==
    /\ Running
    /\ pc_reader = "send"
    /\ events # <<>>
    /\ IF rx = "alive"
       THEN /\ ~is_full(chan)
            /\ chan' = enqueue(chan, Head(events))
            /\ events' = Tail(events)
            /\ pc_reader' = after_send(events')
            /\ UNCHANGED fd_vars
       ELSE /\ fd_table' = drop_events(events, fd_table)
            /\ close_log' = close_log \o closed_by_drops(events)
            /\ discarded' = discarded \o discarded_by(events, "reader")
            /\ events' = <<>>
            /\ pc_reader' = after_send_err
            /\ UNCHANGED chan
    /\ UNCHANGED <<pc_main, exit_code, stderr, startup_vars, tx, rx, env, read_log,
                   reads, consumer_vars>>

\* ------------------------------------------------- consumer (main thread)

\* An iteration that ends when the channel is empty (try_iter).
disconnected_or_empty(t) == TRUE

\* rx.iter() ends only when the channel is empty and every Sender is dropped.
disconnected(t) == t = "dropped"

\* for ev in rx.iter(): the next event, oldest first. It blocks while the
\* channel is empty and a Sender lives; with the channel empty and no Sender
\* the iteration ends, process_events returns and main returns Ok(()).
process_events_next ==
    /\ pc_main = "rx_next"
    /\ IF chan # <<>>
       THEN /\ ev' = Head(chan)
            /\ chan' = Tail(chan)
            /\ recv_log' = Append(recv_log, Head(chan))
            /\ pc_main' = "body"
            /\ UNCHANGED <<rx, exit_code, fan>>
       ELSE /\ disconnected(tx)
            /\ rx' = "dropped"
            /\ exit_code' = {EXIT_SUCCESS}
            /\ pc_main' = "exited"
            /\ UNCHANGED <<ev, chan, recv_log, fan>>
    /\ UNCHANGED <<stderr, stdout, lookups, tx, fan_owner, proc_mounts, mounts, mark_i,
                   mark_calls, marks, reader_vars, env, fd_vars>>

\* A loop body that takes every event to carry a descriptor.
has_descriptor_always(e) == TRUE

\* if let Some(fd) = ev.fd(): an event carries a descriptor unless its fd is FAN_NOFD.
has_descriptor(e) == e.fd # FAN_NOFD

\* What one loop body looked up and computed: whether pid_to_name read the
\* comm file and what the read returned, what read_link returned (LinkErr when
\* there was no descriptor to look up), the name and the code.
looked_up(e, comm, link, name, code) ==
    [id |-> e.id, comm_read |-> comm_lookups(e.pid), comm |-> comm, link |-> link,
     name |-> name, code |-> code]

\* The body of the loop: pid, name, mask, code; with a descriptor, the path
\* and one println!, which blocks while standard output takes no more.
process_events_body ==
    /\ pc_main = "body"
    /\ \E comm \in ProcComm(ev.pid) :
          LET pid  == ev.pid
              name == pid_to_name(pid, comm)
              mask == ev.mask
              code == mask_to_code(mask)
          IN  IF has_descriptor(ev)
              THEN /\ env.room > 0
                   /\ \E link \in fd_to_path(ev.fd, fd_table) :
                         /\ stdout' = Append(stdout,
                                             [id   |-> ev.id,
                                              line |-> format_line(name, pid, code,
                                                                   path_or_unknown(link))])
                         /\ lookups' = Append(lookups, looked_up(ev, comm, link, name, code))
                   /\ env' = [env EXCEPT !.room = @ - 1]
              ELSE /\ lookups' = Append(lookups, looked_up(ev, comm, LinkErr, name, code))
                   /\ UNCHANGED <<stdout, env>>
    /\ pc_main' = "drop_ev"
    /\ UNCHANGED <<exit_code, stderr, startup_vars, channel_vars, reader_vars, ev,
                   recv_log, fd_vars>>

\* The end of the loop body: ev goes out of scope, which closes its descriptor.
process_events_drop ==
    /\ pc_main = "drop_ev"
    /\ fd_table' = drop_event(ev, fd_table)
    /\ close_log' = close_log \o closed_by_drop(ev)
    /\ ev' = NoEvent
    /\ pc_main' = "rx_next"
    /\ UNCHANGED <<exit_code, stderr, stdout, recv_log, lookups, discarded, startup_vars,
                   channel_vars, reader_vars, env>>

\* println! panics when the write to standard output fails, as it does when
\* the reader of standard output is gone: the panic is reported on standard
\* error and the main thread unwinds out of process_events, which drops ev
\* and the Receiver. The events still in the channel are dropped with the
\* Receiver or stay in the channel's buffer, as the channel implementation has
\* it. The reader thread runs on until the process exits.
process_events_panic ==
    /\ pc_main = "body"
    /\ has_descriptor(ev)
    /\ env.room = 0
    /\ \E comm \in ProcComm(ev.pid), link \in fd_to_path(ev.fd, fd_table) :
          lookups' = Append(lookups,
                            looked_up(ev, comm, link, pid_to_name(ev.pid, comm),
                                      mask_to_code(ev.mask)))
    /\ stderr' = Append(stderr, Diag("thread 'main' panicked", "failed printing to stdout"))
    /\ \E kept \in {chan, <<>>} :
          /\ chan' = kept
          /\ IF kept = <<>>
             THEN /\ fd_table' = drop_events(chan, drop_event(ev, fd_table))
                  /\ close_log' = close_log \o closed_by_drop(ev) \o closed_by_drops(chan)
                  /\ discarded' = discarded \o discarded_by(chan, "channel")
             ELSE /\ fd_table' = drop_event(ev, fd_table)
                  /\ close_log' = close_log \o closed_by_drop(ev)
                  /\ UNCHANGED discarded
    /\ ev' = NoEvent
    /\ rx' = "dropped"
    /\ pc_main' = "panicked"
    /\ UNCHANGED <<exit_code, stdout, recv_log, tx, startup_vars, reader_vars, env>>

\* The main thread has unwound: the process exits with the status of a panic.
main_panic_exit ==
    /\ pc_main = "panicked"
    /\ exit_code' = {PANIC_STATUS}
    /\ pc_main' = "exited"
    /\ UNCHANGED <<stderr, startup_vars, channel_vars, reader_vars, env, consumer_vars,
                   fd_vars>>

\* ------------------------------------------------------------ specification

Next ==
    \/ main_setup_fanotify_ok
    \/ main_setup_fanotify_err
    \/ main_monitored_mounts
    \/ main_mark_mount
    \/ main_bounded
    \/ main_spawn_reader
    \/ reader_read_events_ok
    \/ reader_read_events_err
    \/ reader_sleep
    \/ reader_send
    \/ process_events_next
    \/ process_events_body
    \/ process_events_drop

Spec == Init /\ [][Next]_vars

\* The program with a fair scheduler: a thread that can take its step takes
\* it, and the sleep ends. Nothing makes the kernel deliver or fail.
FairSpec ==
    /\ Spec
    /\ WF_vars(reader_send)
    /\ WF_vars(reader_sleep)
    /\ WF_vars(process_events_next)
    /\ WF_vars(process_events_body)
    /\ WF_vars(process_events_drop)

\* The program as before, and also under load.
InitBurst == Init \/ Start(TypicalTables, BurstEnvironments)

SpecBurst == InitBurst /\ [][Next]_vars

\* The program on every event, on pairs of events, and on every table.
InitInputs ==
    \/ Start(TypicalTables, InputEnvironments \cup PairEnvironments)
    \/ Start(MountTables \cup ScenarioTables, QuietEnvironments)

SpecInputs == InitInputs /\ [][Next]_vars

\* The program with a standard output whose reader goes away: after the lines
\* it still takes, a write to it fails.
InitPanic == Start(TypicalTables, ClosedPipeEnvironments)

NextPanic ==
    \/ Next
    \/ process_events_panic
    \/ main_panic_exit

SpecPanic == InitPanic /\ [][NextPanic]_vars

\* ------------------------------------------------------------------ claims

Range(s) == {s[i] : i \in 1..Len(s)}

IsPrefix(s, t) == Len(s) <= Len(t) /\ s = SubSeq(t, 1, Len(s))

\* C1: the events process_events has received are at all times a prefix of
\* the concatenation, in read order, of the batches read_events returned: no
\* event is reordered, duplicated or skipped, within a batch or across batches.
C1_ReceivedIsPrefixOfRead == IsPrefix(recv_log, read_log)

\* C1 witness: the consumer has received more events than one batch holds, so
\* events of at least two batches, and the kernel delivered both kinds.
C1_Witness ==
    /\ Len(recv_log) > MaxBatch
    /\ \E i, j \in 1..Len(recv_log) : recv_log[i].fd # FAN_NOFD /\ recv_log[j].fd = FAN_NOFD

\* The events whose loop body has run, in order.
Processed ==
    IF pc_main = "body" THEN SubSeq(recv_log, 1, Len(recv_log) - 1) ELSE recv_log

\* The places in standard output of the lines printed for the event id.
LinesOf(id) == {k \in 1..Len(stdout) : stdout[k].id = id}

WithDescriptor(es) == {k \in 1..Len(es) : es[k].fd # FAN_NOFD}

C2_LinesMatchProcessed ==
    /\ \A k \in 1..Len(Processed) :
          Cardinality(LinesOf(Processed[k].id))
              = IF Processed[k].fd # FAN_NOFD THEN 1 ELSE 0
    /\ \A k \in 1..Len(stdout) :
          \E j \in WithDescriptor(Processed) : Processed[j].id = stdout[k].id
    /\ Len(stdout) = Cardinality(WithDescriptor(Processed))

\* C2: every event read that carries a descriptor eventually has exactly one
\* line in standard output, an event without a descriptor never has one, and
\* at any time there are as many lines as events with a descriptor whose loop
\* body has run.
C2_OneLinePerDescriptor ==
    /\ []C2_LinesMatchProcessed
    /\ \A i \in 1..MaxEvents :
          (i <= Len(read_log) /\ read_log[i].fd # FAN_NOFD)
              ~> (Cardinality(LinesOf(i)) = 1)

\* C2 witness: the consumer is through with an event that carries a
\* descriptor and with one that carries none, and waits for the next.
C2_Witness ==
    /\ pc_main = "rx_next"
    /\ \E i, j \in 1..Len(Processed) :
          Processed[i].fd # FAN_NOFD /\ Processed[j].fd = FAN_NOFD
    /\ Len(stdout) = Cardinality(WithDescriptor(Processed))

\* C3: the channel never holds more than 512 events; while it holds 512 and
\* the reader is in a send, no step completes the send or starts another send
\* or read_events (the only change to the channel is the consumer taking an
\* event out); and while the channel is empty the consumer stays in its
\* receive.
C3_Backpressure ==
    /\ [](Len(chan) <= CAPACITY)
    /\ [][(Len(chan) = CAPACITY /\ pc_reader = "send")
            => /\ events' = events
               /\ pc_reader' = "send"
               /\ read_log' = read_log
               /\ reads' = reads
               /\ Len(chan') <= Len(chan)]_vars
    /\ [][(chan = <<>> /\ pc_main = "rx_next")
            => /\ pc_main' = "rx_next"
               /\ recv_log' = recv_log
               /\ ev' = ev]_vars

\* C3 witness: the channel holds 512 events and the reader is in the send of
\* the next event of its batch.
C3_Witness ==
    /\ Len(chan) = CAPACITY
    /\ pc_reader = "send"
    /\ events # <<>>

\* /proc/mounts is unreadable, empty, or has no line of an accepted type.
NoMountToMonitor ==
    \/ ~proc_mounts.ok
    \/ \A l \in Range(lines(proc_mounts.content)) : l \notin {Ext4Line, VfatLine}

NoMountsDiag == Diag("No suitable mounts found to monitor.", "")

NothingStarted ==
    /\ mark_calls = <<>>
    /\ marks = <<>>
    /\ tx = "none"
    /\ rx = "none"
    /\ pc_reader = "none"

\* C4 as stated: whenever /proc/mounts has no mount to monitor, the process
\* has, once it has exited, printed a diagnostic and exited with status 0, and
\* has marked nothing, created no channel and spawned no reader.
C4_AsStated ==
    (NoMountToMonitor /\ pc_main = "exited")
        => (stderr # <<>> /\ exit_code = {EXIT_SUCCESS} /\ NothingStarted)

\* C4, amended: whenever /proc/mounts has no mount to monitor, nothing is
\* marked, no channel is created and no reader is spawned, main never gets
\* past the enumeration, and, if setup_fanotify succeeded, the process exits
\* with status 0 after printing the one diagnostic.
C4_NoMountsExitsZero ==
    NoMountToMonitor
        => /\ NothingStarted
           /\ pc_main \in {"setup_fanotify", "monitored_mounts", "exited"}
           /\ (pc_main = "exited" /\ fan # "none")
                 => (exit_code = {EXIT_SUCCESS} /\ stderr = <<NoMountsDiag>>)

\* C4 witness: a readable table with lines, none of an accepted type, and the
\* process has exited with status 0.
C4_Witness ==
    /\ proc_mounts.ok
    /\ proc_mounts.content # <<>>
    /\ NoMountToMonitor
    /\ pc_main = "exited"
    /\ exit_code = {EXIT_SUCCESS}

SetupErrorDiag == Diag("Error", "fanotify_init")

OtherFailureSeen ==
    \/ \E d \in Range(stderr) : d.msg \in {"Failed to mark", "fanotify read error"}
    \/ \E l \in Range(lookups) : ~l.comm.ok \/ ~l.link.ok

MountPaths == [i \in 1..Len(mounts) |-> mounts[i][2]]

FailedMarkDiags == SelectSeq(stderr, LAMBDA d : d.msg = "Failed to mark")

PastMarking == pc_main \in {"bounded", "spawn_reader", "rx_next", "body", "drop_ev"}

\* C6: mark_mount is called for the enumerated mounts in enumeration order,
\* once each; main leaves the loop only with every mount attempted, whatever
\* failed; every failed call has its diagnostic; and past the loop main goes
\* on to the channel, the reader and the consumer, never to an exit.
C6_EveryMountAttempted ==
    /\ IsPrefix(mark_calls, MountPaths)
    /\ Len(mark_calls) = mark_i - 1
    /\ (PastMarking => (mark_calls = MountPaths /\ mounts # <<>>))
    /\ Len(FailedMarkDiags) = Len(mark_calls) - Len(marks)
    /\ \A d \in Range(FailedMarkDiags) : d.arg \in Range(mark_calls)
    /\ (mark_calls # <<>> => Running)
    /\ ((mounts # <<>> /\ mark_i > Len(mounts)) => PastMarking)
    /\ (pc_main \in {"rx_next", "body", "drop_ev"} => pc_reader # "none")

\* C6 witness: two mounts, both marks failed and were reported, and the
\* reader and the consumer run.
C6_Witness ==
    /\ Len(mark_calls) = 2
    /\ marks = <<>>
    /\ Len(FailedMarkDiags) = 2
    /\ pc_reader = "read_events"
    /\ pc_main = "rx_next"

ReadErrorDiag == Diag("fanotify read error", "errno")

\* C7: the reader is either reading (in read_events, or forwarding the batch
\* it returned) or backing off. It backs off only from a failed read_events,
\* never from a successful one; every failed read logs the error and backs
\* off; the backoff always ends in the next read_events, however many reads
\* failed before; and every event read is forwarded to the channel.
C7_ReaderStateMachine ==
    /\ [](pc_reader \in {"none", "read_events", "send", "sleep"})
    /\ [][(pc_reader' = "sleep" /\ pc_reader # "sleep")
            => /\ pc_reader = "read_events"
               /\ reads' = Append(reads, 0)
               /\ read_log' = read_log]_vars
    /\ [][reads' = Append(reads, 0)
            => /\ pc_reader' = "sleep"
               /\ stderr' = Append(stderr, ReadErrorDiag)]_vars
    /\ [][(pc_reader = "sleep" /\ pc_reader' # "sleep")
            => /\ pc_reader' = "read_events"
               /\ stderr' = stderr
               /\ Running']_vars
    /\ (pc_reader = "sleep") ~> (pc_reader = "read_events")
    /\ \A i \in 1..MaxEvents :
          (i <= Len(read_log)) ~> (i <= Len(recv_log) + Len(chan))

\* C7 witness: two reads in a row failed, the next one returned a batch, and
\* every event read so far has been forwarded; the reader is reading again.
C7_Witness ==
    /\ \E k \in 1..Len(reads) :
          k + 2 <= Len(reads) /\ reads[k] = 0 /\ reads[k + 1] = 0 /\ reads[k + 2] > 0
    /\ pc_reader = "read_events"
    /\ events = <<>>
    /\ Len(read_log) > 0
    /\ Len(recv_log) + Len(chan) = Len(read_log)

LineOf(id) == stdout[CHOOSE k \in LinesOf(id) : TRUE].line

\* C9: for every event with a descriptor whose loop body has run there is
\* exactly one line; if the path lookup failed the line ends in "[unknown]",
\* if the name lookup failed it starts with "unknown("; and after a failed
\* lookup the process is running and main is still in the consumer loop.
C9_SentinelOnLookupFailure ==
    /\ Len(lookups) = Len(Processed)
    /\ \A k \in 1..Len(lookups) :
          LET l == lookups[k]
              e == Processed[k]
          IN  /\ l.id = e.id
              /\ e.fd # FAN_NOFD
                    => /\ Cardinality(LinesOf(e.id)) = 1
                       /\ ~l.link.ok
                             => LineOf(e.id)[Len(LineOf(e.id))] = "[unknown]"
                       /\ l.link.ok
                             => LineOf(e.id)[Len(LineOf(e.id))] = l.link.target
                       /\ ~l.comm.ok
                             => SubSeq(LineOf(e.id), 1, 2) = <<"unknown", "(">>
              /\ (~l.link.ok \/ ~l.comm.ok)
                    => (Running /\ pc_main \in {"rx_next", "body", "drop_ev"})

\* C9 witness: both lookups of an event with a descriptor failed, its line
\* is printed, and the loop has gone on to print the line of a later event.
C9_Witness ==
    \E k \in 1..Len(lookups) :
        /\ Processed[k].fd # FAN_NOFD
        /\ Processed[k].pid > 0
        /\ ~lookups[k].link.ok
        /\ ~lookups[k].comm.ok
        /\ \E j \in 1..Len(lookups) : j > k /\ Cardinality(LinesOf(lookups[j].id)) = 1

\* The events that hold their descriptor: the one in the loop body, those in
\* the channel and those of the reader's batch.
Held == (IF ev = NoEvent THEN <<>> ELSE <<ev>>) \o chan \o events

\* The events the consumer has let go of.
Finished ==
    IF ev = NoEvent THEN recv_log ELSE SubSeq(recv_log, 1, Len(recv_log) - 1)

FdsOf(es) == {es[k].fd : k \in WithDescriptor(es)}

C10_OpenAreHeld ==
    /\ DOMAIN fd_table = FdsOf(Held)
    /\ \A k \in WithDescriptor(Finished) :
          Cardinality({j \in 1..Len(close_log) : close_log[j].id = Finished[k].id}) = 1
    /\ Len(close_log) = Cardinality(WithDescriptor(Finished))
    /\ Cardinality(DOMAIN fd_table) <= CAPACITY + Len(events) + 1

\* C10: the open event descriptors are exactly those of the events in the
\* reader's batch, in the channel and in the loop body, so at most 512 plus
\* the batch plus one; the descriptor of every event the consumer has let go
\* of was closed exactly once, and it is closed at the end of the loop body,
\* after the lookups of that event.
C10_DescriptorsReleasedOnce ==
    /\ []C10_OpenAreHeld
    /\ [][close_log' # close_log
            => /\ pc_main = "drop_ev"
               /\ lookups # <<>>
               /\ lookups[Len(lookups)].id = ev.id
               /\ close_log' = Append(close_log, [id |-> ev.id, fd |-> ev.fd])
               /\ ev.fd \in DOMAIN fd_table
               /\ ev.fd \notin DOMAIN fd_table']_vars

\* C10 witness: the channel is full, more descriptors are open than it holds
\* events, and the consumer has released the descriptor of an event.
C10_Witness ==
    /\ Cardinality(DOMAIN fd_table) > CAPACITY
    /\ Len(close_log) >= 1
    /\ Len(chan) = CAPACITY

\* The number of places of the string s that hold the character c.
Count(s, c) == Cardinality({i \in 1..Len(s) : s[i] = c})

\* The nine flags and their characters: open O, access R, modify W,
\* close-after-write C, close-without-write c, create +, delete D,
\* moved-from <, moved-to >.
FlagChars ==
    { <<"FAN_OPEN", "O">>, <<"FAN_ACCESS", "R">>, <<"FAN_MODIFY", "W">>,
      <<"FAN_CLOSE_WRITE", "C">>, <<"FAN_CLOSE_NOWRITE", "c">>, <<"FAN_CREATE", "+">>,
      <<"FAN_DELETE", "D">>, <<"FAN_MOVED_FROM", "<">>, <<"FAN_MOVED_TO", ">">> }

NineFlags == {fc[1] : fc \in FlagChars}

\* C11: for every event whose loop body has run, the code computed from its
\* mask holds the character of each of the nine flags once if the flag is set
\* and not at all otherwise, and nothing else but a "?"; it is exactly "?" if
\* and only if none of the nine flags is set, whatever other bits are; the
\* mask {open, access} gives a code of 'O' and 'R' and nothing else; and two
\* events of the same mask have the same code.
C11_CodeOfMask ==
    /\ Len(lookups) = Len(Processed)
    /\ \A k \in 1..Len(lookups) :
          LET mask == Processed[k].mask
              code == lookups[k].code
          IN  /\ \A fc \in FlagChars :
                    Count(code, fc[2]) = IF fc[1] \in mask THEN 1 ELSE 0
              /\ Range(code) \subseteq {fc[2] : fc \in FlagChars} \cup {"?"}
              /\ (code = <<"?">>) <=> (mask \cap NineFlags = {})
              /\ (mask \cap NineFlags # {}) => "?" \notin Range(code)
              /\ (mask = {"FAN_OPEN", "FAN_ACCESS"})
                    => (Range(code) = {"O", "R"} /\ Len(code) = 2)
              /\ \A j \in 1..Len(lookups) :
                    (Processed[j].mask = mask) => (lookups[j].code = code)

\* C11 witness: the loop body has run for an event whose mask has all nine
\* flags and a bit that is none of them, and its code has nine characters.
C11_Witness ==
    \E k \in 1..Len(lookups) :
        /\ NineFlags \subseteq Processed[k].mask
        /\ Processed[k].mask \ NineFlags # {}
        /\ Len(lookups[k].code) = 9

\* main has called monitored_mounts.
Enumerated == fan # "none" /\ pc_main \notin {"setup_fanotify", "monitored_mounts"}

\* The places of the line feeds in the table, and the k-th of them (0 before
\* the first, one past the end after the last).
LineFeeds == {i \in 1..Len(proc_mounts.content) : proc_mounts.content[i] = "\n"}

LineFeed(k) ==
    IF k = 0 THEN 0
    ELSE IF k > Cardinality(LineFeeds) THEN Len(proc_mounts.content) + 1
    ELSE CHOOSE i \in LineFeeds : Cardinality({j \in LineFeeds : j < i}) = k - 1

\* The whitespace-separated fields of the k-th line of the table.
TableFields(k) ==
    SelectSeq(SubSeq(proc_mounts.content, LineFeed(k - 1) + 1, LineFeed(k) - 1),
              LAMBDA t : t \notin {" ", "\t", "\r", "\n"})

\* The lines of at least three fields whose third is ext4, xfs, btrfs or vfat.
IncludedLines ==
    {k \in 1..(Cardinality(LineFeeds) + 1) :
        /\ Len(TableFields(k)) >= 3
        /\ TableFields(k)[3] \in {"ext4", "xfs", "btrfs", "vfat"}}

IncludedLine(m) ==
    CHOOSE k \in IncludedLines : Cardinality({j \in IncludedLines : j < k}) = m - 1

\* C12: once main has enumerated the mounts, its list has one entry for each
\* line of the table that has at least three fields and an accepted type in
\* the third, and for no other line; the entries are in table order and each
\* is the first and the second field of its line; an unreadable table gives
\* no entry; and the table "/dev/sda1 / ext4 rw 0 0" gives ("/dev/sda1", "/").
C12_ExactlyAcceptedLines ==
    Enumerated
        => /\ ~proc_mounts.ok => mounts = <<>>
           /\ proc_mounts.ok
                 => /\ Len(mounts) = Cardinality(IncludedLines)
                    /\ \A m \in 1..Len(mounts) :
                          mounts[m] = <<TableFields(IncludedLine(m))[1],
                                        TableFields(IncludedLine(m))[2]>>
           /\ (proc_mounts.ok /\ proc_mounts.content = Ext4Line)
                 => mounts = << <<"/dev/sda1", "/">> >>

\* C12 witness: a table of six lines, among them an empty one, one of blanks
\* and one of a type that is not accepted, has given the three mounts of its
\* other lines, in table order.
C12_Witness ==
    /\ Enumerated
    /\ Cardinality(LineFeeds) = 6
    /\ mounts = << <<"/dev/sdc1", "/data">>, <<"/dev/sdd1", "/srv">>,
                   <<"/dev/sdb1", "/boot">> >>

\* The width of the code field of a line: three, or the length of a longer code.
FieldWidth(code) == IF Len(code) > 3 THEN Len(code) ELSE 3

\* C13: the line printed for an event is its name, "(", its pid, "): ", the
\* code field, one space and the path; the code field is three characters or
\* as long as a longer code, begins with the whole code and holds only spaces
\* after it; and the line of an event of mask {open, access} from pid 1234
\* named "cat" on /home/u/file.txt is "cat(1234): OR  /home/u/file.txt".
C13_LineFormat ==
    /\ Len(lookups) = Len(Processed)
    /\ \A k \in 1..Len(lookups) :
          Processed[k].fd # FAN_NOFD
              => /\ Cardinality(LinesOf(lookups[k].id)) = 1
                 /\ LET line == LineOf(lookups[k].id)
                        name == lookups[k].name
                        code == lookups[k].code
                        pid  == Processed[k].pid
                        w    == FieldWidth(code)
                        n    == Len(name)
                    IN  /\ Len(line) = n + 5 + w + 2
                        /\ SubSeq(line, 1, n) = name
                        /\ SubSeq(line, n + 1, n + 5)
                              = <<"(", ToString(pid), ")", ":", " ">>
                        /\ SubSeq(line, n + 6, n + 5 + Len(code)) = code
                        /\ \A i \in (n + 5 + Len(code) + 1)..(n + 5 + w) : line[i] = " "
                        /\ line[n + 5 + w + 1] = " "
                        /\ line[n + 5 + w + 2]
                              = (IF lookups[k].link.ok THEN lookups[k].link.target
                                 ELSE "[unknown]")
                        /\ (/\ Processed[k].mask = {"FAN_OPEN", "FAN_ACCESS"}
                            /\ pid = 1234
                            /\ name = <<"cat">>
                            /\ lookups[k].link = LinkOk("/home/u/file.txt"))
                              => line = <<"cat", "(", "1234", ")", ":", " ", "O", "R",
                                          " ", " ", "/home/u/file.txt">>

\* The line of the scenario is printed.
C13_ScenarioPrinted ==
    \E k \in 1..Len(stdout) :
        stdout[k].line = <<"cat", "(", "1234", ")", ":", " ", "O", "R",
                           " ", " ", "/home/u/file.txt">>

\* C13 witness: a line is printed whose code is longer than the field is wide,
\* and the code is there in full.
C13_Witness ==
    \E k \in 1..Len(lookups) :
        /\ Len(lookups[k].code) > 3
        /\ Cardinality(LinesOf(lookups[k].id)) = 1
        /\ Len(LineOf(lookups[k].id)) = Len(lookups[k].name) + 7 + Len(lookups[k].code)

\* C14: for every event whose loop body has run, pid_to_name gave a name, and
\* the loop went on; for a pid of 0 or less it read no comm file and the name
\* is "unknown"; for a positive pid it read the comm file of that pid, and the
\* name is "unknown" if the read failed.
C14_UnknownName ==
    /\ Len(lookups) = Len(Processed)
    /\ \A k \in 1..Len(lookups) :
          LET pid == Processed[k].pid
              l   == lookups[k]
          IN  /\ l.name \in Seq({"unknown", "cat"})
              /\ l.name # <<>>
              /\ (pid <= 0) => (l.comm_read = <<>> /\ l.name = <<"unknown">>)
              /\ (pid > 0) => (l.comm_read = <<pid>>)
              /\ (pid > 0 /\ ~l.comm.ok) => (l.name = <<"unknown">>)
              /\ (l.name = <<"unknown">>)
                    => (Running /\ pc_main \in {"rx_next", "body", "drop_ev"})

\* C14 witness: the loop body has run for an event of a negative pid that
\* carries a descriptor, and its line begins with "unknown".
C14_Witness ==
    \E k \in 1..Len(lookups) :
        /\ Processed[k].pid < 0
        /\ lookups[k].comm_read = <<>>
        /\ Cardinality(LinesOf(lookups[k].id)) = 1
        /\ Head(LineOf(lookups[k].id)) = "unknown"

\* The loop body has run for an event of a process that is gone.
C14_GoneProcess ==
    \E k \in 1..Len(lookups) :
        /\ Processed[k].pid = 4321
        /\ lookups[k].comm_read = <<4321>>
        /\ lookups[k].name = <<"unknown">>

\* C15: every mark the kernel holds was placed with the flags add and
\* mount-scope and with the mask {open, access, event-on-child}, so with none
\* of modify, close, create, delete and rename; it is a mark of a mount
\* mark_mount was called with; and no step removes or changes a mark: the
\* marks after a step are the marks before it, and at most one more.
C15_MarksAsPlaced ==
    /\ [](\A k \in 1..Len(marks) :
            /\ marks[k].flags = {"FAN_MARK_ADD", "FAN_MARK_MOUNT"}
            /\ marks[k].mask = {"FAN_OPEN", "FAN_ACCESS", "FAN_EVENT_ON_CHILD"}
            /\ marks[k].mask \cap {"FAN_MODIFY", "FAN_CLOSE_WRITE", "FAN_CLOSE_NOWRITE",
                                   "FAN_CREATE", "FAN_DELETE", "FAN_MOVED_FROM",
                                   "FAN_MOVED_TO"} = {}
            /\ marks[k].path \in Range(mark_calls))
    /\ [][/\ IsPrefix(marks, marks')
          /\ Len(marks') <= Len(marks) + 1
          /\ (marks' # marks) => (pc_main = "mark_mount" /\ fan = "open")]_vars

\* C15 witness: two marks are placed, and the reader has read events and the
\* consumer printed a line since.
C15_Witness ==
    /\ Len(marks) = 2
    /\ Len(read_log) > 0
    /\ Len(stdout) > 0

\* C16: main initialises the handle, then enumerates, then makes every mark
\* attempt, then creates the channel, then spawns the reader, then consumes.
\* A read_events happens only with every mark attempt made and is made by the
\* reader, which then owns the handle; a mark attempt happens only before the
\* reader is spawned and before any read, and is made by main, which then
\* owns the handle; the handle has one owner and never goes back to main.
C16_StartupOrder ==
    /\ [](/\ (pc_main = "monitored_mounts" \/ mounts # <<>>) => fan = "open"
          /\ (mark_calls # <<>>) => (mounts # <<>> /\ fan = "open")
          /\ (tx # "none" \/ rx # "none")
                => (mounts # <<>> /\ mark_calls = MountPaths)
          /\ (pc_reader # "none")
                => (tx = "alive" /\ rx = "alive" /\ mark_calls = MountPaths)
          /\ (pc_main \in {"rx_next", "body", "drop_ev"}) => (pc_reader # "none")
          /\ (reads # <<>>) => (pc_reader # "none" /\ mark_calls = MountPaths)
          /\ fan_owner \in {"none", "main", "reader"}
          /\ (fan_owner = "reader") <=> (pc_reader # "none")
          /\ (pc_main = "mark_mount") => (fan_owner = "main"))
    /\ [][(reads' # reads)
            => /\ mark_calls = MountPaths
               /\ mark_calls' = mark_calls
               /\ fan_owner = "reader"
               /\ pc_main \notin {"mark_mount", "bounded", "spawn_reader"}]_vars
    /\ [][(mark_calls' # mark_calls)
            => /\ pc_reader = "none"
               /\ pc_reader' = "none"
               /\ reads = <<>>
               /\ tx = "none"
               /\ fan_owner = "main"]_vars
    /\ [][(fan_owner = "reader") => (fan_owner' = "reader")]_vars

\* C16 witness: two mounts were enumerated, both mark attempts made, the
\* second failed, and the reader has made a read since.
C16_Witness ==
    /\ Len(mounts) = 2
    /\ Len(mark_calls) = 2
    /\ Len(marks) = 1
    /\ marks[1].path = mark_calls[1]
    /\ reads # <<>>
    /\ fan_owner = "reader"

\* The events the reader has dropped unsent.
DiscardedByReader == SelectSeq(discarded, LAMBDA d : d.by = "reader")

\* The reader takes a step of its send while the Receiver is dropped.
FailedSend ==
    /\ pc_reader = "send"
    /\ rx = "dropped"
    /\ <<pc_reader, events>>' # <<pc_reader, events>>

\* C17: a send made with the Receiver dropped puts nothing in the channel and
\* the reader drops every event of the batch that was left; the reader is
\* then in read_events, neither in its backoff nor at an end; the step writes
\* no diagnostic and does not change the status of the process; nothing
\* enters the channel once the Receiver is dropped; and the reader, back in
\* read_events, reads again as soon as the kernel has events while the
\* process is running.
C17_FailedSendGoesOnReading ==
    /\ [][FailedSend
            => /\ chan' = chan
               /\ events' = <<>>
               /\ discarded' = discarded \o discarded_by(events, "reader")
               /\ pc_reader' = "read_events"
               /\ stderr' = stderr
               /\ exit_code' = exit_code
               /\ reads' = reads
               /\ tx' = tx]_vars
    /\ [][(rx = "dropped") => (Len(chan') <= Len(chan) /\ recv_log' = recv_log)]_vars
    /\ [](pc_reader \in {"none", "read_events", "send", "sleep"})
    /\ []((/\ rx = "dropped"
            /\ pc_reader = "read_events"
            /\ Running
            /\ env.events > 0)
              => ENABLED reader_read_events_ok)

\* C17 witness: with the Receiver dropped the reader has dropped events of a
\* batch unsent, has read the next batch since, and is in the send of its
\* first event.
C17_Witness ==
    /\ rx = "dropped"
    /\ Running
    /\ pc_reader = "send"
    /\ events # <<>>
    /\ DiscardedByReader # <<>>
    /\ \A k \in 1..Len(DiscardedByReader) : DiscardedByReader[k].id < Head(events).id

\* With the Receiver dropped the reader has dropped a batch of two events, the
\* second without having tried to send it.
C17_RestOfBatchDropped ==
    /\ rx = "dropped"
    /\ Len(DiscardedByReader) >= 2
    /\ \E k \in 1..Len(reads) : reads[k] >= 2
    /\ pc_reader = "read_events"

Swap(s, i, j) ==
    [k \in 1..Len(s) |-> IF k = i THEN s[j] ELSE IF k = j THEN s[i] ELSE s[k]]

Reverse(s) == [k \in 1..Len(s) |-> s[Len(s) + 1 - k]]

Rotate(s, n) == [k \in 1..Len(s) |-> s[((k + n - 1) % Len(s)) + 1]]

\* Orders the nine if statements of mask_to_code can be put in: the order of
\* the source, every order with two statements swapped, the reverse order and
\* every rotation.
CheckOrders ==
    {Swap(CHECKS, i, j) : i, j \in 1..Len(CHECKS)}
        \cup {Reverse(CHECKS)}
        \cup {Rotate(CHECKS, n) : n \in 0..(Len(CHECKS) - 1)}

\* The code of a mask with the if statements in the given order.
CodeInOrder(checks, mask) == or_question(run_checks(checks, mask))

SameCharacters(a, b) ==
    /\ Len(a) = Len(b)
    /\ \A c \in Range(a) \cup Range(b) : Count(a, c) = Count(b, c)

\* C18 as stated: for every event whose loop body has run, the if statements
\* in any other order give the very string that was computed for its mask.
C18_AsStated ==
    \A k \in 1..Len(lookups) :
        \A checks \in CheckOrders :
            CodeInOrder(checks, Processed[k].mask) = lookups[k].code

\* The place among the if statements of the source of the one that pushes c.
CheckOf(c) == CHOOSE i \in 1..Len(CHECKS) : CHECKS[i][2] = c

\* C18, amended: for every event whose loop body has run, the if statements
\* in any other order give a string of the same characters as the code that
\* was computed for its mask, each as many times, so of the same length, and
\* the same string whenever at most one of the nine flags is set; the
\* characters of the code stand in the order of the if statements of the
\* source.
C18_SameCharactersInAnyOrder ==
    /\ Len(lookups) = Len(Processed)
    /\ \A k \in 1..Len(lookups) :
          LET mask == Processed[k].mask
              code == lookups[k].code
          IN  /\ \A checks \in CheckOrders :
                    /\ SameCharacters(CodeInOrder(checks, mask), code)
                    /\ (Cardinality(mask \cap NineFlags) <= 1)
                          => (CodeInOrder(checks, mask) = code)
              /\ (code # <<"?">>)
                    => \A a, b \in 1..Len(code) :
                          (a < b) => (CheckOf(code[a]) < CheckOf(code[b]))

\* C18 witness: the loop body has run for an event of mask {open, access},
\* whose code is "OR"; with the if statements in reverse order it is "RO".
C18_Witness ==
    \E k \in 1..Len(lookups) :
        /\ Processed[k].mask = {"FAN_OPEN", "FAN_ACCESS"}
        /\ lookups[k].code = <<"O", "R">>
        /\ CodeInOrder(Reverse(CHECKS), Processed[k].mask) = <<"R", "O">>

\* The size of the batch the last successful read_events returned.
LastBatch ==
    LET ok == SelectSeq(reads, LAMBDA n : n > 0)
    IN  IF ok = <<>> THEN 0 ELSE ok[Len(ok)]

\* C19: the reader reads, and backs off, only with no event of a batch left
\* to send; the events it holds are the last events of the last batch it
\* read; and every event read before them is in the channel or was received,
\* in read order: an event of a batch is sent only when every event of the
\* batches before is.
C19_OneBatchAtATime ==
    /\ [](pc_reader \in {"none", "read_events", "sleep"} => events = <<>>)
    /\ [](pc_reader = "send" => events # <<>>)
    /\ [](/\ Len(events) <= LastBatch
          /\ Len(events) <= Len(read_log)
          /\ events = SubSeq(read_log, Len(read_log) - Len(events) + 1, Len(read_log))
          /\ recv_log \o chan = SubSeq(read_log, 1, Len(read_log) - Len(events)))
    /\ [][(reads' # reads) => (events = <<>> /\ pc_reader = "read_events")]_vars
    /\ [][(chan' # chan /\ Len(chan') > Len(chan))
            => /\ events # <<>>
               /\ chan' = Append(chan, Head(events))
               /\ events' = Tail(events)
               /\ reads' = reads]_vars

\* C19 witness: the reader has read a second batch, of two events, and sent
\* the first of them; the second is left to send, and every event read
\* before is in the channel or was received.
C19_Witness ==
    /\ Len(SelectSeq(reads, LAMBDA n : n > 0)) >= 2
    /\ LastBatch = 2
    /\ Len(events) = 1
    /\ pc_reader = "send"
    /\ Len(recv_log) + Len(chan) = Len(read_log) - 1
    /\ chan # <<>>

PanicDiag == Diag("thread 'main' panicked", "failed printing to stdout")

DroppedAfterPanic ==
    /\ exit_code = {PANIC_STATUS}
    /\ DiscardedByReader # <<>>

====
